---- MODULE Spec2Model ----
(***************************************************************************)
(* The receive orchestrator (RecvTask, src/src/recv.rs) and the audio      *)
(* render pipeline (AudioTask/AudioOutput, src/src/audio.rs) of p25rx as   *)
(* a state machine.  Three tasks run concurrently: the producers of the    *)
(* orchestrator's inbound queue, the orchestrator, and the audio task.     *)
(* The decoded-frame service (MessageReceiver), the voice decoder          *)
(* (ImbeDecoder), the channel-parameter map and the sinks are external:    *)
(* the service is a nondeterministic choice of at most one event per       *)
(* sample, the decoder a deterministic function of the frames fed to it    *)
(* since its construction.                                                 *)
(***************************************************************************)
EXTENDS Integers, Sequences, FiniteSets, TLC

VARIABLES
    ctlfreq,    \* RecvTask.ctlfreq
    curfreq,    \* RecvTask.curfreq
    curgroup,   \* RecvTask.curgroup
    encrypted,  \* RecvTask.encrypted
    channels,   \* RecvTask.channels
    msg,        \* RecvTask.msg: "synced" after resync(), "fed" after feed()
    events,     \* the orchestrator's inbound queue (RecvTask.events)
    pc,         \* the orchestrator's position in run(): recv | samples | panicked
    buf,        \* samples of the current baseband buffer still to be handled
    audioq,     \* the audio queue (RecvTask.audio -> AudioTask.events)
    imbe,       \* AudioOutput.imbe: the frames fed since ImbeDecoder::new()
    stream,     \* AudioOutput.stream: the sample blocks written, in order
    sink,       \* the output sink: ready | blocked | failed
    apc,        \* the audio task's position in run(): run | panicked
    closed,     \* outbound sinks of the orchestrator whose receiver terminated
    produced,   \* samples and override commands sent to the orchestrator so far
    sent,       \* observer: what the last orchestrator step sent, in program order
    last,       \* observer: the inbound message or decoded event last handled
    openTags,   \* observer: <<curgroup, curfreq>> of the voice frames forwarded
                \*   since the last EndTransmission was sent
    selTags,    \* observer: the same, since the last EndTransmission or successful
                \*   use_talkgroup
    tuned,      \* observer: the frequency of the last SetFreq sent to the tuner
    reported,   \* observer: the frequency of the last UpdateCurFreq sent to the hub
    emitted,    \* history: every AudioEvent the orchestrator sent, in order
    handled     \* history: every AudioEvent the audio task handled, in order

vars == <<ctlfreq, curfreq, curgroup, encrypted, channels, msg, events, pc, buf,
          audioq, imbe, stream, sink, apc, closed, produced, sent, last,
          openTags, selTags, tuned, reported, emitted, handled>>

recvVars == <<ctlfreq, curfreq, curgroup, encrypted, channels, msg>>
audioVars == <<imbe, stream, apc, handled>>
observers == <<sent, last, openTags, selTags, tuned, reported, emitted>>

(***************************************************************************)
(* Bounds of the model.                                                    *)
(***************************************************************************)
\* What the producers send in one behaviour: the samples of all baseband
\* buffers plus the override commands.
MaxInput == 4

\* The same, in the behaviours where peers terminate.
MaxFaultInput == 3

(***************************************************************************)
(* Data model.                                                             *)
(***************************************************************************)
\* std::u32::MAX, the value of ctlfreq and curfreq before init(freq) runs; TLC's
\* integers are 32-bit signed, so the sentinel is the largest number TLC holds.
U32Max == 2147483647

Default == [tag |-> "Default"]
Other(x) == [tag |-> "Other", id |-> x]
GroupIds == {1, 2}
TalkGroups == {Default} \cup {Other(x) : x \in GroupIds}

ChanIds == {1, 2}
ChanNumbers == {1}
Channels == [id : ChanIds, number : ChanNumbers]

\* Frequency-plan records a channel-parameter update can carry.
ParamSet == {[base |-> 3, spacing |-> 1], [base |-> 5, spacing |-> 2]}

CtlFreqs == {1, 2}

Algs == {"Unencrypted", "Aes"}
DataUnits == {"VoiceLCTerminator", "VoiceSimpleTerminator", "TrunkingSignaling"}

\* Voice-frame payloads (chunks and errors).
Frames == {1, 2}

EndTransmission == [kind |-> "EndTransmission"]
VoiceFrame(vf) == [kind |-> "VoiceFrame", vf |-> vf]
AudioEvents == {EndTransmission} \cup {VoiceFrame(vf) : vf \in Frames}

Baseband(n) == [kind |-> "Baseband", samples |-> n]
SetControlFreq(f) == [kind |-> "SetControlFreq", freq |-> f]
BufSizes == {1, 2}
RecvEvents == {Baseband(n) : n \in BufSizes} \cup {SetControlFreq(f) : f \in CtlFreqs}

\* GroupTrafficUpdate::updates(): the (channel, talkgroup) pairs of one record.
UpdatePairs == [ch : Channels, tg : TalkGroups]
Updates == {<<a, b>> : a \in UpdatePairs, b \in UpdatePairs}

Tsbk(mfg, crc, op) == [kind |-> "TrunkingControl", mfg |-> mfg, crc_valid |-> crc, opcode |-> op]
GroupVoiceUpdate(mfg, crc, ups) ==
    [kind |-> "TrunkingControl", mfg |-> mfg, crc_valid |-> crc,
     opcode |-> "GroupVoiceUpdate", updates |-> ups]
ChannelParamsUpdate(mfg, crc, id, p) ==
    [kind |-> "TrunkingControl", mfg |-> mfg, crc_valid |-> crc,
     opcode |-> "ChannelParamsUpdate", id |-> id, params |-> p]

\* Records that pass both gates (mfg = 0, CRC valid).
PassingTsbks ==
    {Tsbk(0, TRUE, op) : op \in {"None", "GroupVoiceGrant"}}
    \cup {GroupVoiceUpdate(0, TRUE, u) : u \in Updates}
    \cup {ChannelParamsUpdate(0, TRUE, i, p) : i \in ChanIds, p \in ParamSet}

\* Records that fail a gate: vendor-specific, or CRC invalid.
FailingTsbks ==
    LET u == <<[ch |-> [id |-> 1, number |-> 0], tg |-> Default],
               [ch |-> [id |-> 1, number |-> 1], tg |-> Other(1)]>>
    IN ({GroupVoiceUpdate(m, c, u) : m \in {0, 144}, c \in BOOLEAN} \ {GroupVoiceUpdate(0, TRUE, u)})
       \cup {ChannelParamsUpdate(144, TRUE, 1, [base |-> 3, spacing |-> 1]),
             ChannelParamsUpdate(0, FALSE, 1, [base |-> 3, spacing |-> 1])}

\* What MessageReceiver::feed can return for one sample.
None == [kind |-> "None"]
MessageEvents ==
    {[kind |-> k] : k \in {"Error", "LowSpeedDataFragment", "VoiceTerm"}}
    \cup {[kind |-> "PacketNID", data_unit |-> d] : d \in DataUnits}
    \cup {[kind |-> "VoiceHeader", alg |-> a] : a \in Algs}
    \cup {[kind |-> "CryptoControl", alg |-> a] : a \in Algs}
    \cup {[kind |-> "LinkControl", opcode |-> o] : o \in {"None", "GroupVoiceTraffic"}}
    \cup {VoiceFrame(vf) : vf \in Frames}
    \cup PassingTsbks \cup FailingTsbks
Feed == {None} \cup MessageEvents

(***************************************************************************)
(* The orchestrator's state as one record, so that the code's functions    *)
(* are operators from state to state.  out collects what the running step  *)
(* sends, in program order; panicked is set by a failed expect() and       *)
(* makes every later statement of the step a no-op.                        *)
(***************************************************************************)
Task(ctl, cur, grp, enc, chs, m, dead) ==
    [ctlfreq |-> ctl, curfreq |-> cur, curgroup |-> grp, encrypted |-> enc,
     channels |-> chs, msg |-> m, dead |-> dead, out |-> <<>>, panicked |-> FALSE]

Self == Task(ctlfreq, curfreq, curgroup, encrypted, channels, msg,
             closed \cup (IF apc = "panicked" THEN {"audio"} ELSE {}))

\* Mutant: a send to a terminated receiver is dropped and the task goes on.
Send_lossy(s, to, m) ==
    IF s.panicked \/ to \in s.dead THEN s
    ELSE [s EXCEPT !.out = Append(@, [to |-> to, m |-> m])]

\* Sender::send(..).expect(..): appends to the receiver's queue, and panics
\* when the receiver has been dropped.
Send(s, to, m) ==
    IF s.panicked THEN s
    ELSE IF to \in s.dead THEN [s EXCEPT !.panicked = TRUE]
    ELSE [s EXCEPT !.out = Append(@, [to |-> to, m |-> m])]

\* self.msg.recv.resync()
Resync(s) ==
    IF s.panicked THEN s ELSE [s EXCEPT !.msg = "synced"]

\* Mutant: retunes without resynchronizing the decoded-frame service.
set_freq_unsynced(s, freq) ==
    IF s.panicked THEN s
    ELSE LET s1 == [s EXCEPT !.curfreq = freq]
             s2 == Send(s1, "hub", [kind |-> "UpdateCurFreq", freq |-> freq])
         IN Send(s2, "sdr", [kind |-> "SetFreq", freq |-> freq])

set_freq(s, freq) ==
    IF s.panicked THEN s
    ELSE LET s1 == [s EXCEPT !.curfreq = freq]
             s2 == Send(s1, "hub", [kind |-> "UpdateCurFreq", freq |-> freq])
             s3 == Send(s2, "sdr", [kind |-> "SetFreq", freq |-> freq])
         IN Resync(s3)

\* Mutant: returning to control resets the current talkgroup.
switch_control_reset(s) ==
    LET s1 == Send(s, "audio", EndTransmission)
    IN IF s1.panicked THEN s1 ELSE set_freq([s1 EXCEPT !.curgroup = Default], s1.ctlfreq)

\* Mutant: retunes to control without telling the audio task.
switch_control_silent(s) == set_freq(s, s.ctlfreq)

\* Mutant: no EndTransmission when already tuned to the control channel.
switch_control_lazy(s) ==
    IF s.curfreq = s.ctlfreq THEN set_freq(s, s.ctlfreq)
    ELSE LET s1 == Send(s, "audio", EndTransmission)
         IN IF s1.panicked THEN s1 ELSE set_freq(s1, s1.ctlfreq)

switch_control(s) ==
    LET s1 == Send(s, "audio", EndTransmission)
    IN IF s1.panicked THEN s1 ELSE set_freq(s1, s1.ctlfreq)

\* Mutant: switches to control before storing the new control frequency.
set_control_freq_stale(s, freq) ==
    IF s.panicked THEN s
    ELSE LET s1 == Send(s, "hub", [kind |-> "UpdateCtlFreq", freq |-> freq])
             s2 == switch_control(s1)
         IN IF s2.panicked THEN s2 ELSE [s2 EXCEPT !.ctlfreq = freq]

set_control_freq(s, freq) ==
    IF s.panicked THEN s
    ELSE LET s1 == [s EXCEPT !.ctlfreq = freq]
             s2 == Send(s1, "hub", [kind |-> "UpdateCtlFreq", freq |-> freq])
         IN switch_control(s2)

\* Mutant: blacklists the talkgroup but stays on the traffic channel.
handle_crypto_stay(s, alg) ==
    IF s.panicked \/ alg = "Unencrypted" \/ s.curgroup.tag # "Other" THEN s
    ELSE [s EXCEPT !.encrypted = @ \cup {s.curgroup.id}]

\* Mutant: the algorithm is not inspected.
handle_crypto_always(s, alg) ==
    IF s.panicked THEN s
    ELSE LET s1 == switch_control(s)
         IN IF s1.panicked \/ s1.curgroup.tag # "Other" THEN s1
            ELSE [s1 EXCEPT !.encrypted = @ \cup {s1.curgroup.id}]

\* Mutant: returns to control but never blacklists the talkgroup.
handle_crypto_forgetful(s, alg) ==
    IF s.panicked \/ alg = "Unencrypted" THEN s ELSE switch_control(s)

handle_crypto(s, alg) ==
    IF s.panicked \/ alg = "Unencrypted" THEN s
    ELSE LET s1 == switch_control(s)
         IN IF s1.panicked \/ s1.curgroup.tag # "Other" THEN s1
            ELSE [s1 EXCEPT !.encrypted = @ \cup {s1.curgroup.id}]

\* ChannelParamsMap::lookup(id) and ChannelParams::rx_freq(number)
lookup(chs, id) == IF id \in DOMAIN chs THEN {chs[id]} ELSE {}
rx_freq(p, number) == p.base + p.spacing * number

\* Mutant: an entry, once present, is never replaced.
update_keep_first(chs, id, p) ==
    IF id \in DOMAIN chs THEN chs
    ELSE [i \in DOMAIN chs \cup {id} |-> IF i = id THEN p ELSE chs[i]]

\* ChannelParamsMap::update(&dec)
update(chs, id, p) == [i \in DOMAIN chs \cup {id} |-> IF i = id THEN p ELSE chs[i]]

\* Mutant: the encrypted set is not consulted.
use_talkgroup_unchecked(s, tg, ch) ==
    IF lookup(s.channels, ch.id) = {}
    THEN [st |-> s, ok |-> FALSE]
    ELSE LET p == CHOOSE q \in lookup(s.channels, ch.id) : TRUE
             freq == rx_freq(p, ch.number)
             s1 == [s EXCEPT !.curgroup = tg]
             s2 == set_freq(s1, freq)
             s3 == Send(s2, "hub", [kind |-> "UpdateTalkGroup", tg |-> tg])
         IN [st |-> s3, ok |-> TRUE]

\* The result carries the returned bool in field ok.
use_talkgroup(s, tg, ch) ==
    IF tg.tag = "Other" /\ tg.id \in s.encrypted
    THEN [st |-> s, ok |-> FALSE]
    ELSE IF lookup(s.channels, ch.id) = {}
    THEN [st |-> s, ok |-> FALSE]
    ELSE LET p == CHOOSE q \in lookup(s.channels, ch.id) : TRUE
             freq == rx_freq(p, ch.number)
             s1 == [s EXCEPT !.curgroup = tg]
             s2 == set_freq(s1, freq)
             s3 == Send(s2, "hub", [kind |-> "UpdateTalkGroup", tg |-> tg])
         IN [st |-> s3, ok |-> TRUE]

\* Mutant: the loop has no break, so every pair is tried.
RECURSIVE scan_updates_nobreak(_, _, _)
scan_updates_nobreak(s, ups, i) ==
    IF i > Len(ups) \/ s.panicked THEN s
    ELSE scan_updates_nobreak(use_talkgroup(s, ups[i].tg, ups[i].ch).st, ups, i + 1)

\* for (ch, tg) in updates { if self.use_talkgroup(tg, ch) { break; } }
RECURSIVE scan_updates(_, _, _)
scan_updates(s, ups, i) ==
    IF i > Len(ups) \/ s.panicked THEN s
    ELSE LET r == use_talkgroup(s, ups[i].tg, ups[i].ch)
         IN IF r.ok THEN r.st ELSE scan_updates(r.st, ups, i + 1)

\* Mutant: the record is forwarded after its operation code was acted upon.
handle_tsbk_late(s, tsbk) ==
    IF tsbk.mfg # 0 THEN s
    ELSE IF ~tsbk.crc_valid THEN s
    ELSE IF tsbk.opcode = "None" THEN s
    ELSE LET s1 == IF tsbk.opcode = "GroupVoiceUpdate"
                   THEN scan_updates(s, tsbk.updates, 1)
                   ELSE IF tsbk.opcode = "ChannelParamsUpdate"
                   THEN Send([s EXCEPT !.channels = update(@, tsbk.id, tsbk.params)],
                             "hub", [kind |-> "UpdateChannelParams", tsbk |-> tsbk])
                   ELSE s
         IN Send(s1, "hub", [kind |-> "TrunkingControl", tsbk |-> tsbk])

\* Mutant: the record is reported before the gates are applied.
handle_tsbk_ungated(s, tsbk) ==
    LET s1 == Send(s, "hub", [kind |-> "TrunkingControl", tsbk |-> tsbk])
    IN IF s1.panicked \/ tsbk.mfg # 0 \/ ~tsbk.crc_valid \/ tsbk.opcode = "None" THEN s1
       ELSE IF tsbk.opcode = "GroupVoiceUpdate"
       THEN scan_updates(s1, tsbk.updates, 1)
       ELSE IF tsbk.opcode = "ChannelParamsUpdate"
       THEN Send([s1 EXCEPT !.channels = update(@, tsbk.id, tsbk.params)],
                 "hub", [kind |-> "UpdateChannelParams", tsbk |-> tsbk])
       ELSE s1

handle_tsbk(s, tsbk) ==
    IF tsbk.mfg # 0 THEN s
    ELSE IF ~tsbk.crc_valid THEN s
    ELSE IF tsbk.opcode = "None" THEN s
    ELSE LET s1 == Send(s, "hub", [kind |-> "TrunkingControl", tsbk |-> tsbk])
         IN IF s1.panicked THEN s1
            ELSE IF tsbk.opcode = "GroupVoiceUpdate"
            THEN scan_updates(s1, tsbk.updates, 1)
            ELSE IF tsbk.opcode = "ChannelParamsUpdate"
            THEN Send([s1 EXCEPT !.channels = update(@, tsbk.id, tsbk.params)],
                      "hub", [kind |-> "UpdateChannelParams", tsbk |-> tsbk])
            ELSE s1

\* Mutant: every frame-sync record returns to the control channel.
handle_event_any_nid(s, ev) ==
    CASE ev.kind = "PacketNID" -> switch_control(s)
      [] ev.kind \in {"VoiceHeader", "CryptoControl"} -> handle_crypto(s, ev.alg)
      [] ev.kind = "LinkControl" ->
            IF ev.opcode = "None" THEN s
            ELSE Send(s, "hub", [kind |-> "LinkControl", lc |-> ev])
      [] ev.kind = "VoiceFrame" -> Send(s, "audio", ev)
      [] ev.kind = "TrunkingControl" -> handle_tsbk(s, ev)
      [] OTHER -> s

\* handle_sample after self.msg.feed(s) returned ev (None: no event).
handle_event(s, ev) ==
    CASE ev.kind = "None" -> s
      [] ev.kind = "Error" -> s
      [] ev.kind = "PacketNID" ->
            IF ev.data_unit \in {"VoiceLCTerminator", "VoiceSimpleTerminator"}
            THEN switch_control(s) ELSE s
      [] ev.kind = "VoiceHeader" -> handle_crypto(s, ev.alg)
      [] ev.kind = "LinkControl" ->
            IF ev.opcode = "None" THEN s
            ELSE Send(s, "hub", [kind |-> "LinkControl", lc |-> ev])
      [] ev.kind = "CryptoControl" -> handle_crypto(s, ev.alg)
      [] ev.kind = "LowSpeedDataFragment" -> s
      [] ev.kind = "VoiceFrame" -> Send(s, "audio", ev)
      [] ev.kind = "TrunkingControl" -> handle_tsbk(s, ev)
      [] ev.kind = "VoiceTerm" -> s

handle_sample(s, ev) == handle_event([s EXCEPT !.msg = "fed"], ev)

\* Mutant: init(freq) stores and tunes the frequency without switch_control.
new_quiet(freq) ==
    set_freq([Task(U32Max, U32Max, Default, {}, <<>>, "synced", {}) EXCEPT !.ctlfreq = freq], freq)

\* RecvTask::new(freq, ..): the struct literal, then init(freq).
new(freq) ==
    set_control_freq(Task(U32Max, U32Max, Default, {}, <<>>, "synced", {}), freq)

(***************************************************************************)
(* The audio render pipeline.  The decoder's state is the sequence of      *)
(* frames fed to it since ImbeDecoder::new(); the block it produces for a  *)
(* frame is determined by that sequence.                                   *)
(***************************************************************************)
NormDivisor == 8192

Output(im, st, up) == [imbe |-> im, stream |-> st, sinkOk |-> up, panicked |-> FALSE]

\* ImbeDecoder::new()
ImbeNew == <<>>

\* ImbeDecoder::decode(frame, &mut samples): the new decoder state and the block.
imbe_decode(im, frame) ==
    LET im1 == Append(im, frame) IN [imbe |-> im1, samples |-> im1]

\* samples.map_in_place(|&s| s / 8192.0)
scale(samples) == [raw |-> samples, div |-> NormDivisor]

\* stream.write_all(..).expect(..) and stream.flush().expect(..)
write_all(a, block) ==
    IF a.panicked THEN a
    ELSE IF ~a.sinkOk THEN [a EXCEPT !.panicked = TRUE]
    ELSE [a EXCEPT !.stream = Append(@, block)]

flush(a) ==
    IF a.panicked THEN a
    ELSE IF ~a.sinkOk THEN [a EXCEPT !.panicked = TRUE]
    ELSE a

\* Mutant: the decoder is kept.
reset_keep(a) == a

reset(a) ==
    IF a.panicked THEN a ELSE [a EXCEPT !.imbe = ImbeNew]

play(a, frame) ==
    IF a.panicked THEN a
    ELSE LET d == imbe_decode(a.imbe, frame)
         IN write_all([a EXCEPT !.imbe = d.imbe], scale(d.samples))

\* One iteration of AudioTask::run on the received event.
audio_handle(a, ev) ==
    IF ev.kind = "VoiceFrame" THEN play(a, ev.vf)
    ELSE reset(flush(a))

(***************************************************************************)
(* Observers.  A specification watches either the orchestrator's steps     *)
(* (obs = "steps") or the audio stream (obs = "audio").  Watching the      *)
(* steps, the three outbound queues are seen through what each step sends  *)
(* (sent, last, openTags, selTags, tuned, reported are recorded; the       *)
(* queues' contents are not kept).  Watching the audio stream, the audio   *)
(* queue's content and the histories emitted, handled and stream are kept  *)
(* instead.  Watching failures (obs = "fault"), what each step sends and   *)
(* the audio queue's content are both kept.  The orchestrator's and the    *)
(* audio task's code is the same under all three.                          *)
(***************************************************************************)
\* The AudioEvents among what a step sent, in order.
AudioOf(out) ==
    LET sel == SelectSeq(out, LAMBDA o : o.to = "audio")
    IN [i \in 1..Len(sel) |-> sel[i].m]

Sends(out, to, kind) == \E i \in 1..Len(out) : out[i].to = to /\ out[i].m.kind = kind

\* The frequency of the last message of one kind a step sent to one receiver,
\* or prev when it sent none.
LastFreq(out, to, kind, prev) ==
    LET I == {i \in 1..Len(out) : out[i].to = to /\ out[i].m.kind = kind}
    IN IF I = {} THEN prev ELSE out[CHOOSE i \in I : \A j \in I : j <= i].m.freq

\* The open tags after a step that left task s: an EndTransmission closes
\* the transmission, a forwarded voice frame adds the current tag.
TagsAfter(tags, s, closing) ==
    IF closing THEN {}
    ELSE IF Sends(s.out, "audio", "VoiceFrame") THEN tags \cup {<<s.curgroup, s.curfreq>>}
    ELSE tags

(***************************************************************************)
(* Initial state: RecvTask::new(freq, ..) and AudioTask::new(..) have run, *)
(* every queue is open and nothing has been received.                      *)
(***************************************************************************)
Init ==
    \E f \in CtlFreqs :
        LET s == new(f) IN
        /\ ctlfreq = s.ctlfreq /\ curfreq = s.curfreq /\ curgroup = s.curgroup
        /\ encrypted = s.encrypted /\ channels = s.channels /\ msg = s.msg
        /\ events = <<>> /\ pc = "recv" /\ buf = 0
        /\ audioq = AudioOf(s.out)
        /\ imbe = ImbeNew /\ stream = <<>> /\ sink = "ready" /\ apc = "run"
        /\ closed = {} /\ produced = 0
        /\ sent = s.out
        /\ last = [kind |-> "New", freq |-> f]
        /\ openTags = {} /\ selTags = {}
        /\ tuned = LastFreq(s.out, "sdr", "SetFreq", U32Max)
        /\ reported = LastFreq(s.out, "hub", "UpdateCurFreq", U32Max)
        /\ emitted = AudioOf(s.out)
        /\ handled = <<>>

(***************************************************************************)
(* The producers of the inbound queue.                                     *)
(***************************************************************************)
ProduceUpTo(max) ==
    /\ pc # "panicked"
    /\ \E m \in RecvEvents :
        LET n == IF m.kind = "Baseband" THEN m.samples ELSE 1 IN
        /\ produced + n <= max
        /\ events' = Append(events, m)
        /\ produced' = produced + n
    /\ UNCHANGED <<recvVars, pc, buf, audioq, audioVars, sink, closed, observers>>

Produce == ProduceUpTo(MaxInput)

(***************************************************************************)
(* The orchestrator: RecvTask::run.                                        *)
(***************************************************************************)
\* Mutant: a rendezvous channel, whose send waits until the queue is empty.
CanSendSync(q) == q = <<>>

\* RecvTask.audio is the Sender of an asynchronous channel: its send never waits
\* for the receiver, whatever the queue holds.
CanSend(q) == TRUE

\* The state a step of the orchestrator leaves, t being the task after it
\* (bound through a singleton set so that it is computed once).
Commit(t, ev, nextpc, obs) ==
    \E s \in {t} :
    /\ AudioOf(s.out) # <<>> => CanSend(audioq)
    /\ ctlfreq' = s.ctlfreq /\ curfreq' = s.curfreq /\ curgroup' = s.curgroup
    /\ encrypted' = s.encrypted /\ channels' = s.channels /\ msg' = s.msg
    /\ pc' = IF s.panicked THEN "panicked" ELSE nextpc
    /\ IF obs = "audio"
       THEN UNCHANGED <<sent, last, tuned, reported>>
       ELSE /\ sent' = s.out
            /\ last' = ev
            /\ tuned' = LastFreq(s.out, "sdr", "SetFreq", tuned)
            /\ reported' = LastFreq(s.out, "hub", "UpdateCurFreq", reported)
    /\ IF obs = "steps"
       THEN /\ openTags' = TagsAfter(openTags, s, Sends(s.out, "audio", "EndTransmission"))
            /\ selTags' = TagsAfter(selTags, s, Sends(s.out, "audio", "EndTransmission")
                                                \/ Sends(s.out, "hub", "UpdateTalkGroup"))
            /\ UNCHANGED audioq
       ELSE /\ audioq' = audioq \o AudioOf(s.out)
            /\ UNCHANGED <<openTags, selTags>>
    /\ IF obs = "audio"
       THEN emitted' = emitted \o AudioOf(s.out)
       ELSE UNCHANGED emitted

\* Mutant: an override command is taken while a buffer is being iterated.
events_recv_preempting(p) == p \in {"recv", "samples"}

\* self.events.recv() is reached only at the top of the loop of run(): after
\* the match arm of the previous message has run to its end.
events_recv(p) == p = "recv"

\* events.recv() returns RecvEvent::SetControlFreq(freq)
RecvSetControlFreq(obs) ==
    /\ events_recv(pc) /\ events # <<>>
    /\ Head(events).kind = "SetControlFreq"
    /\ events' = Tail(events)
    /\ Commit(set_control_freq(Self, Head(events).freq), Head(events), "recv", obs)
    /\ UNCHANGED <<buf, audioVars, sink, closed, produced>>

\* events.recv() returns RecvEvent::Baseband(samples)
RecvBaseband(obs) ==
    /\ events_recv(pc) /\ events # <<>>
    /\ Head(events).kind = "Baseband"
    /\ events' = Tail(events)
    /\ buf' = Head(events).samples
    /\ Commit(Self, Head(events), "samples", obs)
    /\ UNCHANGED <<audioVars, sink, closed, produced>>

\* One iteration of `for &s in samples.iter() { self.handle_sample(s) }`
HandleSample(obs) ==
    /\ pc = "samples" /\ buf > 0
    /\ buf' = buf - 1
    /\ \E ev \in Feed : Commit(handle_sample(Self, ev), ev, "samples", obs)
    /\ UNCHANGED <<events, audioVars, sink, closed, produced>>

\* cb(&samples[..]) after the last sample
Callback(obs) ==
    /\ pc = "samples" /\ buf = 0
    /\ Commit(Self, [kind |-> "Callback"], "recv", obs)
    /\ UNCHANGED <<events, buf, audioVars, sink, closed, produced>>

(***************************************************************************)
(* The audio task: AudioTask::run.                                         *)
(***************************************************************************)
\* Mutant: the newest event is taken first.
audio_recv_lifo(q) == [ev |-> q[Len(q)], rest |-> SubSeq(q, 1, Len(q) - 1)]

\* self.events.recv(): the head of the queue.
audio_recv(q) == [ev |-> Head(q), rest |-> Tail(q)]

AudioStep ==
    /\ apc = "run" /\ audioq # <<>>
    /\ sink # "blocked"
    /\ LET r == audio_recv(audioq)
           a == audio_handle(Output(imbe, stream, sink = "ready"), r.ev) IN
        /\ audioq' = r.rest
        /\ imbe' = a.imbe
        /\ stream' = a.stream
        /\ apc' = IF a.panicked THEN "panicked" ELSE "run"
        /\ handled' = IF a.panicked THEN handled ELSE Append(handled, r.ev)
    /\ UNCHANGED <<recvVars, events, pc, buf, sink, closed, produced, observers>>

(***************************************************************************)
(* The environment: the output sink stops accepting data, for good.        *)
(***************************************************************************)
SinkBlocks ==
    /\ sink = "ready" /\ sink' = "blocked"
    /\ UNCHANGED <<recvVars, events, pc, buf, audioq, audioVars, closed, produced, observers>>

(***************************************************************************)
(* The environment: peers terminate.  The hub's or the tuner's receiving   *)
(* task ends and drops its Receiver; the output sink starts failing every  *)
(* write and flush; and when the orchestrator has terminated, its Sender   *)
(* is dropped, so that the audio task's recv() fails once the queue is     *)
(* drained.                                                                *)
(***************************************************************************)
ReceiverTerminates ==
    /\ \E r \in {"hub", "sdr"} \ closed : closed' = closed \cup {r}
    /\ UNCHANGED <<recvVars, events, pc, buf, audioq, audioVars, sink, produced, observers>>

SinkFails ==
    /\ sink = "ready" /\ sink' = "failed"
    /\ UNCHANGED <<recvVars, events, pc, buf, audioq, audioVars, closed, produced, observers>>

\* self.events.recv().expect("unable to receive audio event") on a closed,
\* empty queue
AudioRecvClosed ==
    /\ apc = "run" /\ audioq = <<>>
    /\ pc = "panicked"
    /\ apc' = "panicked"
    /\ UNCHANGED <<recvVars, events, pc, buf, audioq, imbe, stream, handled, sink,
                   closed, produced, observers>>

(***************************************************************************)
(* The specifications.                                                     *)
(***************************************************************************)
Orchestrator(obs) ==
    \/ RecvSetControlFreq(obs)
    \/ RecvBaseband(obs)
    \/ HandleSample(obs)
    \/ Callback(obs)

\* The producers and the orchestrator, watching the orchestrator's steps.
Next ==
    \/ Produce
    \/ RecvSetControlFreq("steps")
    \/ RecvBaseband("steps")
    \/ HandleSample("steps")
    \/ Callback("steps")

Spec == Init /\ [][Next]_vars

\* The whole system, watching the audio stream.
NextAudio ==
    \/ Produce
    \/ RecvSetControlFreq("audio")
    \/ RecvBaseband("audio")
    \/ HandleSample("audio")
    \/ Callback("audio")
    \/ AudioStep

SpecAudio == Init /\ [][NextAudio]_vars

\* The audio task is its own thread and its sink accepts every write: the
\* task is scheduled whenever an event is in its queue.
SpecAudioFair == SpecAudio /\ WF_vars(AudioStep)

\* The whole system with a sink that may block for good: from then on the
\* audio task takes no step.
NextBlocked ==
    \/ Produce
    \/ RecvSetControlFreq("audio")
    \/ RecvBaseband("audio")
    \/ HandleSample("audio")
    \/ Callback("audio")
    \/ AudioStep
    \/ SinkBlocks

SpecBlocked == Init /\ [][NextBlocked]_vars

\* The whole system with peers that may terminate, watching failures.
NextFault ==
    \/ ProduceUpTo(MaxFaultInput)
    \/ RecvSetControlFreq("fault")
    \/ RecvBaseband("fault")
    \/ HandleSample("fault")
    \/ Callback("fault")
    \/ AudioStep
    \/ ReceiverTerminates
    \/ SinkFails
    \/ AudioRecvClosed

SpecFault == Init /\ [][NextFault]_vars

(***************************************************************************)
(* Vocabulary of the properties.                                           *)
(***************************************************************************)
Running == pc # "panicked"

\* How many messages of one kind the last step sent to one receiver.
CountSent(to, kind) ==
    Cardinality({i \in 1..Len(sent) : sent[i].to = to /\ sent[i].m.kind = kind})

\* Positions in sent of the messages of one kind to one receiver.
Where(to, kind) == {i \in 1..Len(sent) : sent[i].to = to /\ sent[i].m.kind = kind}

\* The last step handled a group-voice-channel-update that passed both gates.
PassedGroupVoiceUpdate ==
    /\ last.kind = "TrunkingControl"
    /\ last.mfg = 0 /\ last.crc_valid
    /\ last.opcode = "GroupVoiceUpdate"

Blacklisted(tg) == tg.tag = "Other" /\ tg.id \in encrypted
Resolves(ch) == ch.id \in DOMAIN channels
Resolved(ch) == channels[ch.id].base + channels[ch.id].spacing * ch.number
Qualifies(u) == ~Blacklisted(u.tg) /\ Resolves(u.ch)

IsTerminator(ev) ==
    /\ ev.kind = "PacketNID"
    /\ ev.data_unit \in {"VoiceLCTerminator", "VoiceSimpleTerminator"}

IsEncryptedCrypto(ev) ==
    /\ ev.kind \in {"VoiceHeader", "CryptoControl"}
    /\ ev.alg # "Unencrypted"

\* In sent, an EndTransmission precedes the current-frequency report for f,
\* which precedes the tuner command for f; each is sent exactly once.
EotThenRetune(f) ==
    /\ CountSent("audio", "EndTransmission") = 1
    /\ CountSent("hub", "UpdateCurFreq") = 1
    /\ CountSent("sdr", "SetFreq") = 1
    /\ \E i \in Where("audio", "EndTransmission") :
       \E j \in Where("hub", "UpdateCurFreq") :
       \E k \in Where("sdr", "SetFreq") :
            i < j /\ j < k /\ sent[j].m.freq = f /\ sent[k].m.freq = f

(***************************************************************************)
(* C1: group-voice-channel-update selection is first-match-wins.  After a  *)
(* passing record is handled, if some pair qualifies (talkgroup not in the *)
(* encrypted set, channel id in the channel-parameter map), the current    *)
(* talkgroup is the talkgroup of the first such pair and the current       *)
(* frequency is the frequency its channel resolves to, whatever the later  *)
(* pairs are; and the record caused at most one retune.                    *)
(***************************************************************************)
C1_FirstMatchWins ==
    (PassedGroupVoiceUpdate /\ Running) =>
        LET ups == last.updates
            Q == {i \in 1..Len(ups) : Qualifies(ups[i])}
        IN /\ CountSent("sdr", "SetFreq") <= 1
           /\ CountSent("hub", "UpdateCurFreq") <= 1
           /\ Q # {} =>
                LET i == CHOOSE m \in Q : \A n \in Q : m <= n
                IN /\ curgroup = ups[i].tg
                   /\ curfreq = Resolved(ups[i].ch)
                   /\ CountSent("sdr", "SetFreq") = 1
                   /\ \E k \in Where("sdr", "SetFreq") : sent[k].m.freq = Resolved(ups[i].ch)

\* A record whose first pair names a blacklisted talkgroup on a resolvable
\* channel and whose second pair, another numeric talkgroup, was selected.
C1_Witness ==
    /\ PassedGroupVoiceUpdate /\ Running
    /\ Blacklisted(last.updates[1].tg) /\ Resolves(last.updates[1].ch)
    /\ Qualifies(last.updates[2])
    /\ last.updates[2].tg.tag = "Other"
    /\ curgroup = last.updates[2].tg
    /\ curfreq = Resolved(last.updates[2].ch)
    /\ CountSent("sdr", "SetFreq") = 1

(***************************************************************************)
(* C2: blacklisting is permanent.  Once x is in the encrypted set it stays *)
(* there, and no later step reports talkgroup x as selected or makes x the *)
(* current talkgroup.                                                      *)
(***************************************************************************)
SelectedIn(out, x) ==
    \E i \in 1..Len(out) :
        /\ out[i].to = "hub" /\ out[i].m.kind = "UpdateTalkGroup"
        /\ out[i].m.tg = Other(x)

C2_BlacklistPermanent ==
    [][\A x \in encrypted :
            /\ x \in encrypted'
            /\ ~SelectedIn(sent', x)
            /\ (curgroup' = Other(x) => curgroup = Other(x))]_vars

\* A passing record with a pair naming a blacklisted talkgroup on a
\* resolvable channel was handled without any retune.
C2_Witness ==
    /\ PassedGroupVoiceUpdate /\ Running
    /\ \E i \in 1..Len(last.updates) :
            Blacklisted(last.updates[i].tg) /\ Resolves(last.updates[i].ch)
    /\ CountSent("sdr", "SetFreq") = 0
    /\ \A i \in 1..Len(last.updates) : Resolves(last.updates[i].ch)

(***************************************************************************)
(* C3: a voice header or crypto-control record with an algorithm other     *)
(* than "unencrypted", handled while the current talkgroup is a numeric id *)
(* x: (a) x is in the encrypted set, (b) the current frequency is the      *)
(* control-channel frequency, (c) an EndTransmission was put on the audio  *)
(* queue before the current-frequency report and the tuner command.        *)
(***************************************************************************)
C3_EncryptionDetected ==
    (IsEncryptedCrypto(last) /\ curgroup.tag = "Other" /\ Running) =>
        /\ curgroup.id \in encrypted
        /\ curfreq = ctlfreq
        /\ EotThenRetune(ctlfreq)

\* Encryption was detected on a traffic channel's talkgroup.
C3_Witness ==
    /\ IsEncryptedCrypto(last) /\ curgroup.tag = "Other" /\ Running
    /\ encrypted = {curgroup.id}
    /\ last.kind = "CryptoControl"

(***************************************************************************)
(* C4: a voice-terminator frame sync, in any state, leaves the current     *)
(* frequency equal to the control-channel frequency and puts exactly one   *)
(* EndTransmission on the audio queue.                                     *)
(***************************************************************************)
C4_Terminator ==
    (IsTerminator(last) /\ Running) =>
        /\ curfreq = ctlfreq
        /\ CountSent("audio", "EndTransmission") = 1
        /\ Len(AudioOf(sent)) = 1

\* A terminator handled while already on control: no channel has ever been
\* resolvable, so the receiver never left the control channel.
C4_Witness ==
    /\ IsTerminator(last) /\ Running
    /\ DOMAIN channels = {}
    /\ last.data_unit = "VoiceSimpleTerminator"

(***************************************************************************)
(* C5: decoupling.  Whatever the audio task does, also when it is blocked  *)
(* for good in a write to its sink while events pile up in its queue, the  *)
(* orchestrator is never made to wait: whenever it has a message in its    *)
(* inbound queue or a buffer in hand, its next step is enabled, and each   *)
(* of its steps brings the pending input one step closer to completion.    *)
(* So it suspends only on its own empty inbound queue and, being scheduled,*)
(* processes every message to completion.                                  *)
(***************************************************************************)
RECURSIVE Units(_)
Units(q) ==
    IF q = <<>> THEN 0
    ELSE (IF Head(q).kind = "Baseband" THEN Head(q).samples ELSE 1) + Units(Tail(q))

\* Samples and commands the orchestrator has taken in and handled.
Consumed == produced - Units(events) - buf

\* Steps the orchestrator still has to take for the input it holds: one per
\* command; one receive, one per sample and one callback per buffer.
RECURSIVE StepsFor(_)
StepsFor(q) ==
    IF q = <<>> THEN 0
    ELSE (IF Head(q).kind = "Baseband" THEN Head(q).samples + 2 ELSE 1) + StepsFor(Tail(q))

Remaining == StepsFor(events) + (IF pc = "samples" THEN buf + 1 ELSE 0)

C5_Decoupled ==
    /\ []((Running /\ Remaining > 0) => ENABLED Orchestrator("audio"))
    /\ [][(pc' # pc \/ buf' # buf \/ Len(events') < Len(events))
            => Remaining' = Remaining - 1]_vars

\* Everything was consumed while the blocked audio task still had a voice
\* frame and more waiting in its queue.
C5_Witness ==
    /\ sink = "blocked" /\ apc = "run"
    /\ produced = MaxInput /\ Consumed = MaxInput /\ pc = "recv"
    /\ Len(audioq) >= 3
    /\ \E i \in 1..Len(audioq) : audioq[i].kind = "VoiceFrame"

(***************************************************************************)
(* C6: every AudioEvent the orchestrator emits is handled by the audio     *)
(* task exactly once and in emission order: the handled sequence is always *)
(* a prefix of the emitted one, and with the audio task scheduled and the  *)
(* sink accepting writes every emitted event is eventually handled.        *)
(***************************************************************************)
IsPrefix(a, b) == Len(a) <= Len(b) /\ a = SubSeq(b, 1, Len(a))

C6_Fifo ==
    /\ [](IsPrefix(handled, emitted))
    /\ \A n \in 1..(MaxInput + 1) : (Len(emitted) >= n) ~> (Len(handled) >= n)

\* Frames and end-of-transmission markers were all handled, in order.
C6_Witness ==
    /\ handled = emitted /\ Len(handled) >= 4
    /\ handled[2].kind = "VoiceFrame"
    /\ handled[3].kind = "EndTransmission"
    /\ handled[4].kind = "VoiceFrame" /\ handled[4] # handled[2]

(***************************************************************************)
(* C7: decoder reset equivalence.  The blocks written for the frames       *)
(* handled since the last EndTransmission are the blocks a freshly         *)
(* constructed pipeline writes for those frames alone, whatever was        *)
(* handled before that EndTransmission.                                    *)
(***************************************************************************)
LastEot(h) ==
    LET E == {i \in 1..Len(h) : h[i].kind = "EndTransmission"}
    IN IF E = {} THEN 0 ELSE CHOOSE i \in E : \A j \in E : j <= i

\* The events handled since the last EndTransmission: all voice frames.
SinceEot(h) == SubSeq(h, LastEot(h) + 1, Len(h))

\* AudioOutput::new(stream) handling the events of t in order.
RECURSIVE FreshRun(_, _)
FreshRun(a, t) ==
    IF t = <<>> THEN a ELSE FreshRun(audio_handle(a, Head(t)), Tail(t))

C7_ResetEquivalence ==
    LET t2 == SinceEot(handled)
    IN apc = "run" =>
        /\ Len(stream) >= Len(t2)
        /\ SubSeq(stream, Len(stream) - Len(t2) + 1, Len(stream))
             = FreshRun(Output(ImbeNew, <<>>, TRUE), t2).stream

\* A transmission, an EndTransmission, and a second transmission of two frames.
C7_Witness ==
    /\ apc = "run"
    /\ LastEot(handled) >= 3
    /\ handled[LastEot(handled) - 1].kind = "VoiceFrame"
    /\ Len(SinceEot(handled)) >= 2

(***************************************************************************)
(* C8 as stated: any two voice frames forwarded under different values of  *)
(* current talkgroup or current frequency are separated by at least one    *)
(* EndTransmission: the frames forwarded since the last EndTransmission    *)
(* all carry one talkgroup and frequency.                                  *)
(***************************************************************************)
C8_Original == Cardinality(openTags) <= 1

(***************************************************************************)
(* C8 amended: any two voice frames forwarded under different values of    *)
(* current talkgroup or current frequency are separated by at least one    *)
(* EndTransmission or by a successful talkgroup selection (use_talkgroup   *)
(* retunes without sending an EndTransmission).                            *)
(***************************************************************************)
C8_SeparatedByEotOrSelection == Cardinality(selTags) <= 1

\* Frames were forwarded under two different tags with a selection, and no
\* EndTransmission, between them.
C8_Witness ==
    /\ Cardinality(openTags) = 2
    /\ selTags # {}
    /\ last.kind = "VoiceFrame"

(***************************************************************************)
(* C9 as stated: construction with control frequency F0 produces, before   *)
(* any inbound message is processed, exactly one current-frequency report  *)
(* for F0, exactly one tuner command for F0, and no voice event            *)
(* (VoiceEvent: voice frame or end of transmission) for the audio task.    *)
(***************************************************************************)
ConstructionReports ==
    /\ CountSent("hub", "UpdateCurFreq") = 1
    /\ CountSent("sdr", "SetFreq") = 1
    /\ \A i \in Where("hub", "UpdateCurFreq") : sent[i].m.freq = last.freq
    /\ \A i \in Where("sdr", "SetFreq") : sent[i].m.freq = last.freq

C9_Original ==
    last.kind = "New" => (ConstructionReports /\ AudioOf(sent) = <<>>)

(***************************************************************************)
(* C9 amended: construction with control frequency F0 produces, before any *)
(* inbound message is processed, exactly one current-frequency report for  *)
(* F0, exactly one tuner command for F0, and exactly one voice event, an   *)
(* end-of-transmission; no voice frame is emitted.                         *)
(***************************************************************************)
C9_Construction ==
    last.kind = "New" => (ConstructionReports /\ AudioOf(sent) = <<EndTransmission>>)

\* Constructed with the second control frequency, input waiting, nothing processed.
C9_Witness ==
    /\ last.kind = "New" /\ last.freq = 2
    /\ ctlfreq = 2 /\ curfreq = 2
    /\ events # <<>>

(***************************************************************************)
(* C10: an override command F1, in any state, puts an EndTransmission on   *)
(* the audio queue, then sends the current-frequency report for F1, then   *)
(* the tuner command for F1; afterwards control-channel frequency =        *)
(* current frequency = F1.  (The control-frequency report for F1 is sent   *)
(* before the three.)                                                      *)
(***************************************************************************)
C10_Override ==
    (last.kind = "SetControlFreq" /\ Running) =>
        /\ EotThenRetune(last.freq)
        /\ ctlfreq = last.freq
        /\ curfreq = last.freq

\* An override handled after a talkgroup had been selected
\* (the current talkgroup is kept).
C10_Witness ==
    /\ last.kind = "SetControlFreq" /\ Running
    /\ curgroup # Default
    /\ ctlfreq = 1

(***************************************************************************)
(* C11: inbound messages are handled one at a time in queue order.  The    *)
(* orchestrator takes the head of its inbound queue, and only between two  *)
(* messages; once it has taken a baseband buffer it dispatches every       *)
(* sample and runs the callback before it takes anything else.  So the     *)
(* control-channel frequency changes only in the step that takes an        *)
(* override command from the head of the queue with no buffer in hand, and *)
(* never between two samples of one buffer.                                *)
(***************************************************************************)
\* The step is one of the orchestrator's (the producers only append).
OrchestratorStep == pc' # pc \/ buf' # buf \/ Len(events') < Len(events)

C11_QueueOrder ==
    [][/\ Len(events') < Len(events) =>
            /\ pc = "recv" /\ buf = 0
            /\ events' = Tail(events)
            /\ last' = Head(events)
       /\ ctlfreq' # ctlfreq =>
            /\ pc = "recv" /\ buf = 0 /\ events # <<>>
            /\ Head(events) = SetControlFreq(ctlfreq')
            /\ events' = Tail(events)
       /\ (pc = "samples" /\ OrchestratorStep) =>
            /\ ctlfreq' = ctlfreq
            /\ events' = events
            /\ IF buf > 0
               THEN buf' = buf - 1 /\ pc' = "samples" /\ last' \in Feed
               ELSE buf' = 0 /\ pc' = "recv" /\ last'.kind = "Callback"]_vars

\* One sample of a two-sample buffer has been dispatched while an override
\* to another control frequency waits behind the buffer.
C11_Witness ==
    /\ pc = "samples" /\ buf = 1
    /\ last \in Feed
    /\ events # <<>>
    /\ Head(events).kind = "SetControlFreq"
    /\ Head(events).freq # ctlfreq

(***************************************************************************)
(* C12: topology failure is fatal and never retried.  A step of the        *)
(* orchestrator sends exactly what it would send with every receiver       *)
(* alive, up to its first send to a terminated receiver (the hub, the      *)
(* tuner, or the audio task); at that send the task terminates, and a      *)
(* terminated orchestrator sends nothing, changes no state and receives    *)
(* nothing.  The audio task terminates in the step in which its write or   *)
(* flush fails, and when its queue is closed and empty; terminated, it     *)
(* writes and handles nothing more.                                        *)
(***************************************************************************)
\* The receivers that have terminated.
Dead == closed \cup (IF apc = "panicked" THEN {"audio"} ELSE {})

\* The task after handling ev, had every receiver been alive.
FaultFree(ev) ==
    LET c == [Self EXCEPT !.dead = {}]
    IN CASE ev.kind = "SetControlFreq" -> set_control_freq(c, ev.freq)
         [] ev.kind \in {"Baseband", "Callback"} -> c
         [] OTHER -> handle_sample(c, ev)

\* The position in out of the first send to a receiver in dead; 0 if none.
FirstDead(out, dead) ==
    LET I == {i \in 1..Len(out) : out[i].to \in dead}
    IN IF I = {} THEN 0 ELSE CHOOSE i \in I : \A j \in I : i <= j

C12_FatalDisconnect ==
    [][/\ (pc # "panicked" /\ OrchestratorStep) =>
            \A full \in {FaultFree(last').out} :
            \A k \in {FirstDead(full, Dead)} :
               IF k = 0
               THEN /\ pc' # "panicked"
                    /\ sent' = full
               ELSE /\ pc' = "panicked"
                    /\ sent' = SubSeq(full, 1, k - 1)
                    /\ encrypted' = encrypted /\ channels' = channels
       /\ pc = "panicked" =>
            /\ UNCHANGED <<recvVars, pc, buf, events, sent, last, tuned, reported>>
            /\ Len(audioq') <= Len(audioq)
       /\ (apc = "run" /\ Len(audioq') < Len(audioq)) =>
            IF sink = "failed"
            THEN apc' = "panicked" /\ stream' = stream /\ handled' = handled
            ELSE apc' = "run" /\ handled' = Append(handled, Head(audioq))
       /\ (apc = "run" /\ audioq = <<>> /\ pc = "panicked") =>
            /\ UNCHANGED <<imbe, stream, handled>>
            /\ apc' = "panicked" \/ UNCHANGED <<apc, audioq>>
       /\ apc = "panicked" => UNCHANGED <<imbe, stream, handled, apc, audioq>>]_vars

\* The tuner's receiver had terminated when a talkgroup was selected: the
\* orchestrator terminated at the tuner command, after the record and the
\* current frequency were reported and before the talkgroup was, with an
\* override still in its queue; the audio task, having handled the
\* EndTransmission of construction, terminated on its closed queue.
C12_Witness ==
    /\ pc = "panicked" /\ apc = "panicked"
    /\ closed = {"sdr"} /\ sink = "ready"
    /\ PassedGroupVoiceUpdate
    /\ Len(sent) = 2
    /\ curfreq = reported /\ curfreq # tuned
    /\ events # <<>>
    /\ handled = <<EndTransmission>>

(***************************************************************************)
(* C13 as stated: protocol noise is dropped silently.  A decode error, a   *)
(* vendor-specific trunking record, a trunking record failing its          *)
(* integrity check, a record with an unrecognized operation code, and a    *)
(* group-voice-channel-update all of whose pairs are blacklisted or        *)
(* unresolvable each produce no report, no tuner command and no voice      *)
(* event, and leave control frequency, current frequency, current          *)
(* talkgroup, channel-parameter map and encrypted set unchanged.           *)
(***************************************************************************)
\* The step handles one sample.
SampleStep == pc = "samples" /\ buf' = buf - 1

IsPassing(ev) == ev.kind = "TrunkingControl" /\ ev.mfg = 0 /\ ev.crc_valid

\* A decode error or a trunking record that is dropped at a gate.
DroppedAtGate(ev) ==
    \/ ev.kind = "Error"
    \/ /\ ev.kind = "TrunkingControl"
       /\ ev.mfg # 0 \/ ~ev.crc_valid \/ ev.opcode = "None"

\* A passing group-voice-channel-update none of whose pairs qualifies in the
\* state it is handled in.
AllPairsFail(ev) ==
    /\ IsPassing(ev) /\ ev.opcode = "GroupVoiceUpdate"
    /\ \A i \in 1..Len(ev.updates) : ~Qualifies(ev.updates[i])

Forwarded(ev) == [to |-> "hub", m |-> [kind |-> "TrunkingControl", tsbk |-> ev]]

C13_Original ==
    [][(SampleStep /\ (DroppedAtGate(last') \/ AllPairsFail(last'))) =>
            /\ sent' = <<>>
            /\ UNCHANGED <<ctlfreq, curfreq, curgroup, channels, encrypted>>]_vars

(***************************************************************************)
(* C13 amended: a decode error, a vendor-specific trunking record, a       *)
(* trunking record failing its integrity check and a record with an        *)
(* unrecognized operation code produce no report, no tuner command and no  *)
(* voice event; a passing group-voice-channel-update all of whose pairs    *)
(* are blacklisted or unresolvable is forwarded to the Control/Reporting   *)
(* Sink like every passing record and produces nothing else.  Each leaves  *)
(* control frequency, current frequency, current talkgroup,                *)
(* channel-parameter map and encrypted set unchanged.                      *)
(***************************************************************************)
C13_NoiseDropped ==
    [][/\ (SampleStep /\ DroppedAtGate(last')) =>
            /\ sent' = <<>>
            /\ UNCHANGED <<ctlfreq, curfreq, curgroup, channels, encrypted>>
       /\ (SampleStep /\ AllPairsFail(last')) =>
            /\ sent' = <<Forwarded(last')>>
            /\ UNCHANGED <<ctlfreq, curfreq, curgroup, channels, encrypted>>]_vars

\* A passing record whose first pair names a blacklisted talkgroup and whose
\* second pair names an unresolvable channel was handled: only the record
\* itself was sent.
C13_Witness ==
    /\ PassedGroupVoiceUpdate /\ Running
    /\ Blacklisted(last.updates[1].tg) /\ Resolves(last.updates[1].ch)
    /\ ~Blacklisted(last.updates[2].tg) /\ ~Resolves(last.updates[2].ch)
    /\ sent = <<Forwarded(last)>>

(***************************************************************************)
(* C14: the current frequency never desynchronizes from the tuner.  After  *)
(* construction, whenever the orchestrator has finished handling a sample  *)
(* or an inbound message, the current frequency is the frequency of the    *)
(* last tuner command sent and of the last current-frequency report sent;  *)
(* and a step that changes the current frequency sends a tuner command and *)
(* leaves the decoded-frame service resynchronized, so that no sample is   *)
(* fed between the change and the resynchronization.  A sample step leaves *)
(* the service resynchronized exactly when it sent a tuner command.        *)
(***************************************************************************)
C14_TunerInSync ==
    /\ [](Running => (curfreq = tuned /\ curfreq = reported))
    /\ [][/\ curfreq' # curfreq =>
                /\ msg' = "synced"
                /\ Sends(sent', "sdr", "SetFreq")
                /\ Sends(sent', "hub", "UpdateCurFreq")
          /\ SampleStep => (msg' = "synced" <=> Sends(sent', "sdr", "SetFreq"))
          /\ SampleStep => (msg' = "fed" <=> ~Sends(sent', "sdr", "SetFreq"))]_vars

\* Tuned to a traffic channel, with a voice frame decoded from a sample fed
\* after the retune.
C14_Witness ==
    /\ Running
    /\ curfreq # ctlfreq /\ curfreq = tuned /\ curfreq = reported
    /\ msg = "fed"
    /\ last.kind = "VoiceFrame"

(***************************************************************************)
(* C15 as stated: every trunking-control record that passes the two gates  *)
(* (manufacturer field standard, integrity check passed) is forwarded to   *)
(* the Control/Reporting Sink before any state change or retune its        *)
(* operation code causes: the forward is the first thing the step sends,   *)
(* and when the sink's receiver has terminated the step ends there, with   *)
(* nothing sent and the state as it was.                                   *)
(***************************************************************************)
ForwardedFirst(ev) ==
    IF "hub" \in closed
    THEN /\ pc' = "panicked"
         /\ sent' = <<>>
         /\ UNCHANGED <<ctlfreq, curfreq, curgroup, channels, encrypted>>
    ELSE /\ sent' # <<>>
         /\ sent'[1] = Forwarded(ev)

C15_Original ==
    [][(SampleStep /\ IsPassing(last')) => ForwardedFirst(last')]_vars

(***************************************************************************)
(* C15 amended: every trunking-control record that passes the two gates    *)
(* and carries a recognized operation code is forwarded to the             *)
(* Control/Reporting Sink before any state change or retune its operation  *)
(* code causes; a passing record with an unrecognized operation code is    *)
(* dropped without being forwarded.                                        *)
(***************************************************************************)
C15_ForwardedFirst ==
    [][/\ (SampleStep /\ IsPassing(last') /\ last'.opcode # "None") =>
            ForwardedFirst(last')
       /\ (SampleStep /\ IsPassing(last') /\ last'.opcode = "None") =>
            /\ sent' = <<>> /\ pc' = "samples"
            /\ UNCHANGED <<ctlfreq, curfreq, curgroup, channels, encrypted>>]_vars

\* The hub's receiver had terminated when a passing record arrived whose
\* first pair would have been selected: nothing was sent and no talkgroup
\* was selected.
C15_Witness ==
    /\ pc = "panicked" /\ "hub" \in closed
    /\ PassedGroupVoiceUpdate
    /\ Qualifies(last.updates[1])
    /\ sent = <<>>
    /\ curgroup = Default /\ curfreq = ctlfreq

(***************************************************************************)
(* C16: a passing channel-parameter-update record for channel id c merges  *)
(* its parameters into the channel-parameter map (entry c becomes the      *)
(* carried parameters, every other entry is kept) and is reported (the     *)
(* record is forwarded, then the update is reported), without changing     *)
(* current frequency, current talkgroup, control frequency or the          *)
(* encrypted set and without a tuner command.  The map is empty at         *)
(* construction, changes in no other step and never loses an entry: so     *)
(* channel id c is unresolvable before any such update and resolvable ever *)
(* after, and the first pair of a group-voice-channel-update whose         *)
(* talkgroup is not blacklisted is selected exactly when its channel id    *)
(* has been updated before.                                                *)
(***************************************************************************)
IsChannelParamsUpdate(ev) == IsPassing(ev) /\ ev.opcode = "ChannelParamsUpdate"

C16_ChannelParams ==
    /\ [](last.kind = "New" => DOMAIN channels = {})
    /\ [][/\ (SampleStep /\ IsChannelParamsUpdate(last')) =>
                /\ DOMAIN channels' = DOMAIN channels \cup {last'.id}
                /\ channels'[last'.id] = last'.params
                /\ \A i \in DOMAIN channels \ {last'.id} : channels'[i] = channels[i]
                /\ sent' = <<Forwarded(last'),
                             [to |-> "hub", m |-> [kind |-> "UpdateChannelParams", tsbk |-> last']]>>
                /\ UNCHANGED <<ctlfreq, curfreq, curgroup, encrypted>>
          /\ channels' # channels => (SampleStep /\ IsChannelParamsUpdate(last'))
          /\ DOMAIN channels \subseteq DOMAIN channels'
          /\ (/\ SampleStep /\ IsPassing(last') /\ last'.opcode = "GroupVoiceUpdate"
              /\ ~Blacklisted(last'.updates[1].tg)) =>
                IF Resolves(last'.updates[1].ch)
                THEN /\ curgroup' = last'.updates[1].tg
                     /\ curfreq' = Resolved(last'.updates[1].ch)
                     /\ Sends(sent', "sdr", "SetFreq")
                ELSE \/ UNCHANGED <<curgroup, curfreq>> /\ sent' = <<Forwarded(last')>>
                     \/ /\ Qualifies(last'.updates[2])
                        /\ curgroup' = last'.updates[2].tg
                        /\ curfreq' = Resolved(last'.updates[2].ch)]_vars

\* While tuned to a traffic channel, an update for a second channel id was
\* merged: both ids resolve, the receiver stayed where it was.
C16_Witness ==
    /\ Running /\ IsChannelParamsUpdate(last)
    /\ DOMAIN channels = {1, 2} /\ last.id = 2
    /\ curgroup # Default /\ curfreq # ctlfreq
    /\ Len(sent) = 2

(***************************************************************************)
(* C17: state mutates only through the retuning protocol.  The control     *)
(* frequency is the constructor's argument after construction and changes  *)
(* only in the step that handles an override command.  The current         *)
(* frequency changes only in a step that handles an override, a voice      *)
(* terminator, an encryption detection, or a group-voice-channel-update    *)
(* whose selection succeeded.  The current talkgroup changes only in a     *)
(* step whose talkgroup selection succeeded.  Every other sample step      *)
(* (no event, decode error, link control, voice frame, low-speed data,     *)
(* non-terminator frame sync, unencrypted crypto record, failed            *)
(* selection, any other trunking record), and taking a buffer and the      *)
(* callback, leave all three unchanged.                                    *)
(***************************************************************************)
\* The step selected a talkgroup.
SelectionSucceeded(ev, out) ==
    /\ IsPassing(ev) /\ ev.opcode = "GroupVoiceUpdate"
    /\ Sends(out, "hub", "UpdateTalkGroup")

SwitchesToControl(ev) == IsTerminator(ev) \/ IsEncryptedCrypto(ev)

C17_RetuningProtocol ==
    /\ [](last.kind = "New" => (ctlfreq = last.freq /\ curfreq = last.freq /\ curgroup = Default))
    /\ [][/\ ctlfreq' # ctlfreq =>
                /\ Len(events') < Len(events)
                /\ last' = SetControlFreq(ctlfreq')
          /\ curfreq' # curfreq =>
                \/ Len(events') < Len(events) /\ last' = SetControlFreq(curfreq')
                \/ SampleStep /\ SwitchesToControl(last') /\ curfreq' = ctlfreq
                \/ SampleStep /\ SelectionSucceeded(last', sent')
          /\ curgroup' # curgroup => (SampleStep /\ SelectionSucceeded(last', sent'))
          /\ (SampleStep /\ ~SwitchesToControl(last') /\ ~SelectionSucceeded(last', sent')) =>
                UNCHANGED <<ctlfreq, curfreq, curgroup>>
          /\ (SampleStep /\ last'.kind \in {"None", "Error", "LinkControl", "VoiceFrame",
                                             "LowSpeedDataFragment", "VoiceTerm"}) =>
                UNCHANGED <<ctlfreq, curfreq, curgroup>>
          /\ (OrchestratorStep /\ ~SampleStep /\ last'.kind # "SetControlFreq") =>
                UNCHANGED <<ctlfreq, curfreq, curgroup>>]_vars

\* Tuned to a traffic channel, a group-voice-channel-update whose selection
\* failed was handled: the receiver stayed on the traffic channel.
C17_Witness ==
    /\ Running /\ PassedGroupVoiceUpdate
    /\ ~Sends(sent, "hub", "UpdateTalkGroup")
    /\ curfreq # ctlfreq /\ curgroup # Default

(***************************************************************************)
(* C18: the encrypted-talkgroup set is append-only.  It is empty at        *)
(* construction; every step leaves it a superset of what it was; it grows  *)
(* only in a step that handles a voice header or crypto-control record     *)
(* with an algorithm other than "unencrypted", and that step adds exactly  *)
(* the numeric id of the current talkgroup, and nothing when the current   *)
(* talkgroup is not a numeric id.                                          *)
(***************************************************************************)
C18_AppendOnly ==
    /\ [](last.kind = "New" => encrypted = {})
    /\ [][/\ encrypted \subseteq encrypted'
          /\ encrypted' # encrypted =>
                /\ SampleStep /\ IsEncryptedCrypto(last')
                /\ curgroup.tag = "Other"
                /\ encrypted' = encrypted \cup {curgroup.id}
          /\ (SampleStep /\ IsEncryptedCrypto(last')) =>
                encrypted' = IF curgroup.tag = "Other"
                             THEN encrypted \cup {curgroup.id}
                             ELSE encrypted]_vars

\* Encryption was detected in a voice header while the current talkgroup
\* was the default one: the receiver returned to control and nothing was
\* added.
C18_Witness ==
    /\ Running /\ IsEncryptedCrypto(last) /\ last.kind = "VoiceHeader"
    /\ curgroup = Default /\ encrypted = {}
    /\ Sends(sent, "audio", "EndTransmission")
    /\ DOMAIN channels # {}

(***************************************************************************)
(* C19: the receiver is never left tuned to a traffic channel for a        *)
(* blacklisted talkgroup.  Whenever the orchestrator has finished handling *)
(* a sample or an inbound message, if the current talkgroup is a numeric   *)
(* id contained in the encrypted set then the current frequency is the     *)
(* control-channel frequency.                                              *)
(***************************************************************************)
C19_BlacklistedOnControl ==
    (Running /\ Blacklisted(curgroup)) => curfreq = ctlfreq

\* The current talkgroup is blacklisted and a later record assigned it a
\* resolvable channel again: the receiver stayed on the control channel.
C19_Witness ==
    /\ Running /\ Blacklisted(curgroup)
    /\ PassedGroupVoiceUpdate
    /\ \E i \in 1..Len(last.updates) :
            last.updates[i].tg = curgroup /\ Resolves(last.updates[i].ch)
    /\ curfreq = ctlfreq

(***************************************************************************)
(* C20: switch-to-control changes only the current frequency.  A step that *)
(* returns to control for a terminator or an encryption detection leaves   *)
(* the current talkgroup, the channel-parameter map and the control        *)
(* frequency unchanged; an override leaves talkgroup and map unchanged and *)
(* returns to the control frequency it has just set; construction leaves   *)
(* the default talkgroup and the empty map.  So the current talkgroup is   *)
(* never reset on returning to control: it changes only in a step that     *)
(* selected a talkgroup, which sends no EndTransmission, and an encryption *)
(* detection in on-control mode blacklists the numeric id of the talkgroup *)
(* selected last.                                                          *)
(***************************************************************************)
C20_SwitchControlFrame ==
    /\ [](last.kind = "New" => (curgroup = Default /\ DOMAIN channels = {} /\ curfreq = ctlfreq))
    /\ [][/\ (SampleStep /\ SwitchesToControl(last')) =>
                /\ UNCHANGED <<curgroup, channels, ctlfreq>>
                /\ curfreq' = ctlfreq
                /\ Sends(sent', "audio", "EndTransmission")
          /\ (Len(events') < Len(events) /\ last'.kind = "SetControlFreq") =>
                /\ UNCHANGED <<curgroup, channels>>
                /\ curfreq' = ctlfreq'
                /\ Sends(sent', "audio", "EndTransmission")
          /\ (OrchestratorStep /\ Sends(sent', "audio", "EndTransmission")) =>
                UNCHANGED <<curgroup, channels>>
          /\ curgroup' # curgroup => SelectionSucceeded(last', sent')
          /\ (/\ SampleStep /\ IsEncryptedCrypto(last')
              /\ curfreq = ctlfreq /\ curgroup.tag = "Other") =>
                /\ curgroup' = curgroup
                /\ encrypted' = encrypted \cup {curgroup.id}]_vars

\* A terminator was handled after a numeric talkgroup had been selected:
\* the receiver is on control and the talkgroup is still current.
C20_Witness ==
    /\ Running /\ IsTerminator(last)
    /\ curgroup.tag = "Other" /\ encrypted = {}
    /\ curfreq = ctlfreq
    /\ last.data_unit = "VoiceLCTerminator"

====
